---- MODULE Spec2Model ----
(***************************************************************************)
(* A model of the gameplay systems of the ball game in src/src/main.rs and *)
(* src/src/player.rs: goal_system, move_player and player_kick, driven by  *)
(* the engine's frame loop, in the default build (without the cargo        *)
(* feature "develop", which leaves PlayerPlugin out).                      *)
(*                                                                         *)
(* Units.  Frame time is counted in ticks of 1/8 s and lengths in 1/8 of a *)
(* world unit, so that speed * dt is an integer; the multiplications of    *)
(* move_player (by 0, 1, -1 and by 4.0) are exact in f32.  Player pitch is  *)
(* counted in quarter turns about X: rotate_x(-FRAC_PI_2) is -1 and        *)
(* rotate_x(FRAC_PI_2) is +1, composed as rotations (modulo a full turn).  *)
(***************************************************************************)
EXTENDS Integers, Sequences, FiniteSets, TLC

\* ------------------------------------------------------------------ bounds
\* Collision events delivered by one physics step.
MaxBatch == 2
\* Goal-sensor Stopped events delivered over a run.
MaxGoals == 10
\* Kick-key events (press / release) the window delivers within one frame.
MaxKeyEvents == 3
\* Longest frame time, in ticks.
MaxDt == 4
\* Most entities that carry one marker component.
MaxEntities == 2

\* --------------------------------------------------------------- constants
\* The factor 4.0 of move_player.
Speed == 4
\* FRAC_PI_2, the kick amplitude, in quarter turns.
KickTurn == 1
\* The fixed kick duration of the specification's KickActionTimer (0.25 s),
\* in ticks.  The code has no such constant.
KickDuration == 2
\* u32::MAX as Score.goals holds it (see FormatU32): all 32 bits set.
U32Max == -1

VARIABLES
    overflowChecks, \* whether the build profile checks integer overflow
    scene,          \* how many entities (or resources) of each kind exist
    crashed,        \* a system has panicked: the frame loop is gone
    ran,            \* the systems that have run in the current frame
    goals,          \* Score.goals
    ballPos,        \* the Ball's Transform.translation
    label,          \* sections[0].value of the ScoreText
    pitch,          \* the Player's rotation about X, in quarter turns
    translation,    \* KinematicCharacterController.translation of the Player
    events,         \* the CollisionEvents goal_system's reader has not read
    spaceHeld,      \* Input<KeyCode>::pressed(Space)
    justPressed,    \* Input<KeyCode>::just_pressed(Space)
    justReleased,   \* Input<KeyCode>::just_released(Space)
    moveKeys,       \* the movement keys Input<KeyCode>::pressed reports
    dt,             \* Time::delta_seconds of the frame, in ticks
    start,          \* history: the state and the batch as the frame began
    delivered,      \* history: goal-sensor Stopped events delivered so far
    sinceKick       \* history: frame time since the last kick press (-1: none)

vars == <<overflowChecks, scene, crashed, ran, goals, ballPos, label,
          pitch, translation, events, spaceHeld, justPressed, justReleased,
          moveKeys, dt, start, delivered, sinceKick>>

\* ------------------------------------------------------------------- scene
\* The marker components goal_system looks up with get_single, and the
\* Score resource it takes as ResMut.
Kinds == {"EnemyGoal", "Player", "Ball", "ScoreText", "Score"}

\* The scene the startup systems build: one of each.
SetUp == [k \in Kinds |-> 1]

\* Entity identities that appear in collision events.
EnemyEntity == "goal"
PlayerEntity == "player"
BallEntity == "ball"
Entities == {EnemyEntity, PlayerEntity, BallEntity, "floor"}

\* Vec3::new(0.0, 4.0, 0.0): where the ball is spawned and respawned.
Respawn == <<0, 32, 0>>
\* Ball positions the physics step may leave the ball at.
Positions == {Respawn, <<0, 8, 72>>}

\* The value of an Option that is None.
None == <<>>

\* The systems added to the app, by PlayerPlugin and by main.
Systems == {"move", "kick", "goal"}

\* ------------------------------------------------------------ score label
Digits == <<"0", "1", "2", "3", "4", "5", "6", "7", "8", "9">>
ScorePrefix == <<"S", "c", "o", "r", "e", ":", " ">>

\* Decimal display, most significant digit first, no padding.
RECURSIVE FormatNat(_)
FormatNat(n) ==
    IF n < 10 THEN <<Digits[n + 1]>>
    ELSE FormatNat(n \div 10) \o <<Digits[(n % 10) + 1]>>

\* Score.goals is a u32.  The model holds its 32 bits as a 32-bit integer:
\* a value v below 2^31 is held as v, a larger one as v - 2^32, so u32::MAX
\* is -1 and the successor of 2^31 - 1 is -2^31.
IncU32(g) == IF g = 2147483647 THEN -2147483647 - 1 ELSE g + 1

\* Display of a u32.  For v >= 2^31, held as g = v - 2^32, the digits come
\* from a = g + 2^31 and v = a + 2147483648 by long division.
FormatU32(g) ==
    IF g >= 0 THEN FormatNat(g)
    ELSE LET a == (g + 2147483647) + 1
             low == (a % 10) + 8
         IN  FormatNat((a \div 10) + 214748364 + (low \div 10))
                 \o <<Digits[(low % 10) + 1]>>

\* format!("Score: {}", n)
FormatScore(n) == ScorePrefix \o FormatU32(n)

\* ------------------------------------------------------------- goal_system
Event(kind, a, b) == [kind |-> kind, a |-> a, b |-> b]

\* The events a physics step may put into a batch.
EventAlphabet ==
    { Event("Stopped", BallEntity, EnemyEntity),
      Event("Stopped", EnemyEntity, BallEntity),
      Event("Stopped", PlayerEntity, EnemyEntity),
      Event("Stopped", BallEntity, "floor"),
      Event("Started", BallEntity, EnemyEntity),
      Event("Started", PlayerEntity, BallEntity) }

\* A batch as the history keeps it: its length, how many of its events are
\* Stopped events that involve the goal sensor, and how many of those pair
\* the sensor with the ball.
NoBatch == [len |-> 0, stops |-> 0, ballStops |-> 0]

Batches(n) == UNION { [1..k -> EventAlphabet] : k \in 0..n }

\* Variant: a lookup that also accepts a missing entity.
GetSingleLenient(kind) == scene[kind] <= 1

\* get_single() is Ok exactly when one entity matches; a ResMut parameter
\* needs its resource to exist.
GetSingle(kind) == scene[kind] = 1

\* Variant: the sensor is looked for in the first position only.
IsGoalStopFirst(ev) == ev.kind = "Stopped" /\ ev.a = EnemyEntity

\* Variant: the kind of the event is not looked at.
IsGoalAnyKind(ev) == ev.a = EnemyEntity \/ ev.b = EnemyEntity

\* Variant: the other entity of the pair has to be the ball.
IsGoalStopBallOnly(ev) ==
    /\ ev.kind = "Stopped"
    /\ {ev.a, ev.b} = {EnemyEntity, BallEntity}

\* if let CollisionEvent::Stopped(a, b, _) = ev { if a == enemy || b == enemy
IsGoalStop(ev) ==
    ev.kind = "Stopped" /\ (ev.a = EnemyEntity \/ ev.b = EnemyEntity)

\* score.goals += 1 on a u32: past u32::MAX the addition panics when the
\* profile checks overflow and wraps otherwise.
AddOne(st) ==
    IF st.goals # U32Max THEN [st EXCEPT !.goals = IncU32(st.goals)]
    ELSE IF overflowChecks THEN [st EXCEPT !.panicked = TRUE]
    ELSE [st EXCEPT !.goals = 0]

\* Variant: the ball is left where it is.
OnGoalNoReset(st) ==
    LET added == AddOne(st)
    IN  IF added.panicked THEN added
        ELSE [added EXCEPT !.label = FormatScore(added.goals)]

\* Variant: the label is written before the score is incremented.
OnGoalStaleLabel(st) ==
    AddOne([st EXCEPT !.ball = Respawn, !.label = FormatScore(st.goals)])

\* The three statements of a goal: the ball is reset, the score incremented,
\* and the label written from the new score.
OnGoal(st) ==
    LET moved == [st EXCEPT !.ball = Respawn]
        added == AddOne(moved)
    IN  IF added.panicked THEN added
        ELSE [added EXCEPT !.label = FormatScore(added.goals)]

\* The body of the loop for one event.  The Started branch only logs.
OnEvent(st, ev) == IF IsGoalStop(ev) THEN OnGoal(st) ELSE st

\* Variant: one event is read per run, the others stay unread.
DrainFirstOnly(st, evs) ==
    IF evs = <<>> THEN [st EXCEPT !.unread = evs]
    ELSE [OnEvent(st, Head(evs)) EXCEPT !.unread = Tail(evs)]

\* for ev in collision_events.iter(): each unread event in order, until
\* none is left or the body panics.
RECURSIVE Drain(_, _)
Drain(st, evs) ==
    IF evs = <<>> \/ st.panicked THEN [st EXCEPT !.unread = evs]
    ELSE Drain(OnEvent(st, Head(evs)), Tail(evs))

GoalSystem ==
    /\ ~crashed
    /\ "goal" \notin ran
    /\ IF \A k \in Kinds : GetSingle(k)
       THEN LET r == Drain([ball |-> ballPos, goals |-> goals,
                            label |-> label, panicked |-> FALSE,
                            unread |-> events], events)
            IN  /\ ballPos' = r.ball
                /\ goals' = r.goals
                /\ label' = r.label
                /\ events' = r.unread
                /\ crashed' = r.panicked
                /\ ran' = IF r.panicked THEN ran ELSE ran \cup {"goal"}
       ELSE /\ crashed' = TRUE
            /\ UNCHANGED <<ballPos, goals, label, events, ran>>
    /\ UNCHANGED <<overflowChecks, scene, pitch, translation,
                   spaceHeld, justPressed, justReleased, moveKeys, dt, start,
                   delivered, sinceKick>>

\* ------------------------------------------------------------- move_player
\* direction after the four key tests, as <<x, y, z>>.
MoveDirection(keys) ==
    LET d0 == <<0, 0, 0>>
        d1 == IF "W" \in keys THEN <<d0[1], d0[2], d0[3] + 1>> ELSE d0
        d2 == IF "S" \in keys THEN <<d1[1], d1[2], d1[3] - 1>> ELSE d1
        d3 == IF "A" \in keys THEN <<d2[1] + 1, d2[2], d2[3]>> ELSE d2
        d4 == IF "D" \in keys THEN <<d3[1] - 1, d3[2], d3[3]>> ELSE d3
    IN  d4

\* Variant: a constant downward component is added to the direction.
MoveCommandBiased(keys, d) ==
    LET dir == MoveDirection(keys)
    IN  <<dir[1] * d * Speed, (dir[2] - 1) * d * Speed, dir[3] * d * Speed>>

\* Some(direction * time.delta_seconds() * 4.0)
MoveCommand(keys, d) ==
    LET dir == MoveDirection(keys)
    IN  <<dir[1] * d * Speed, dir[2] * d * Speed, dir[3] * d * Speed>>

MovePlayer ==
    /\ ~crashed
    /\ "move" \notin ran
    /\ IF GetSingle("Player")
       THEN /\ translation' = MoveCommand(moveKeys, dt)
            /\ ran' = ran \cup {"move"}
            /\ crashed' = crashed
       ELSE /\ crashed' = TRUE
            /\ UNCHANGED <<translation, ran>>
    /\ UNCHANGED <<overflowChecks, scene, goals, ballPos, label,
                   pitch, events, spaceHeld, justPressed, justReleased,
                   moveKeys, dt, start, delivered, sinceKick>>

\* ------------------------------------------------------------- player_kick
\* A rotation about X by q quarter turns applied to one of p quarter turns:
\* rotations compose modulo a full turn; the result is named in -1..2.
RotateX(p, q) == ((p + q + 1) % 4) - 1

\* Variant: the press is ignored.
KickPitchNoSnap(p, jp, jr) == IF jr THEN RotateX(p, KickTurn) ELSE p

\* Variant: the release is ignored.
KickPitchNoReturn(p, jp, jr) == IF jp THEN RotateX(p, -KickTurn) ELSE p

\* Variant: the kick waits while a collision event is unread.
KickPitchUnlessEvent(p, jp, jr) ==
    IF events # <<>> THEN p
    ELSE LET p1 == IF jp THEN RotateX(p, -KickTurn) ELSE p
             p2 == IF jr THEN RotateX(p1, KickTurn) ELSE p1
         IN  p2

\* Variant: the release is tested only when there was no press.
KickPitchElseIf(p, jp, jr) ==
    IF jp THEN RotateX(p, -KickTurn)
    ELSE IF jr THEN RotateX(p, KickTurn)
    ELSE p

\* The two tests of player_kick, in order.
KickPitch(p, jp, jr) ==
    LET p1 == IF jp THEN RotateX(p, -KickTurn) ELSE p
        p2 == IF jr THEN RotateX(p1, KickTurn) ELSE p1
    IN  p2

PlayerKick ==
    /\ ~crashed
    /\ "kick" \notin ran
    /\ IF GetSingle("Player")
       THEN /\ pitch' = KickPitch(pitch, justPressed, justReleased)
            /\ ran' = ran \cup {"kick"}
            /\ crashed' = crashed
       ELSE /\ crashed' = TRUE
            /\ UNCHANGED <<pitch, ran>>
    /\ UNCHANGED <<overflowChecks, scene, goals, ballPos, label,
                   translation, events, spaceHeld, justPressed, justReleased,
                   moveKeys, dt, start, delivered, sinceKick>>

\* ------------------------------------------------------------------- input
MoveKeyNames == {"W", "A", "S", "D"}
KeySeqs(n) == UNION { [1..k -> {"Pressed", "Released"}] : k \in 0..n }

\* Input::clear, run before the frame's key events are applied.
Cleared(held) == [pressed |-> held, jp |-> FALSE, jr |-> FALSE]

\* Input::press: only a key that was not held becomes just pressed.
Press(i) == IF i.pressed THEN i ELSE [i EXCEPT !.pressed = TRUE, !.jp = TRUE]

\* Input::release: only a key that was held becomes just released.
Release(i) == IF i.pressed THEN [i EXCEPT !.pressed = FALSE, !.jr = TRUE] ELSE i

\* The frame's key events applied in order.
RECURSIVE ApplyKeys(_, _)
ApplyKeys(i, seq) ==
    IF seq = <<>> THEN i
    ELSE ApplyKeys(IF Head(seq) = "Pressed" THEN Press(i) ELSE Release(i),
                   Tail(seq))

\* What the systems of a frame can read of the kick key, for a key that was
\* held or not as the frame began and the key events the frame may bring.
Snapshots(held, seqs) == { ApplyKeys(Cleared(held), ks) : ks \in seqs }

\* A frame's edges are consistent with the held state of the key: the key
\* ends the frame held otherwise than it began exactly when one of the two
\* edges is reported without the other.  History only.
EdgesConsistent(held, inp) ==
    (inp.pressed # held) <=> (inp.jp # inp.jr)

\* ------------------------------------------------------------- frame loop
\* What a specification says of a Stopped event that involves the sensor;
\* used only to count deliveries.
SensorStopped(ev) ==
    ev.kind = "Stopped" /\ EnemyEntity \in {ev.a, ev.b}

RECURSIVE NumSensorStopped(_)
NumSensorStopped(evs) ==
    IF evs = <<>> THEN 0
    ELSE (IF SensorStopped(Head(evs)) THEN 1 ELSE 0) + NumSensorStopped(Tail(evs))

\* A Stopped event between the sensor and the ball; used only to count.
SensorBallStopped(ev) ==
    SensorStopped(ev) /\ BallEntity \in {ev.a, ev.b}

RECURSIVE NumSensorBallStopped(_)
NumSensorBallStopped(evs) ==
    IF evs = <<>> THEN 0
    ELSE (IF SensorBallStopped(Head(evs)) THEN 1 ELSE 0)
             + NumSensorBallStopped(Tail(evs))

\* A batch as the history keeps it.
Summary(evs) ==
    [len |-> Len(evs), stops |-> NumSensorStopped(evs),
     ballStops |-> NumSensorBallStopped(evs)]

\* Frame time since the last kick press (-1 before the first), saturating
\* at KickDuration.
Elapsed(since, jp, d) ==
    IF jp THEN 0
    ELSE IF since < 0 THEN since
    ELSE IF since + d < KickDuration THEN since + d
    ELSE KickDuration

\* The state after the startup systems, at the first frame's update stage:
\* the score is 0 and the first frame's input and time are in.  In the
\* program the scene is SetUp, the ball is at its spawn point and no physics
\* step has run, so that Scenes = {SetUp}, Ps = {Respawn} and Bs = {<<>>};
\* wider sets put goal_system into scenes that were set up otherwise.
InitWith(Scenes, Ps, Bs, KeySets, Dts, KickSeqs) ==
    /\ overflowChecks = TRUE
    /\ scene \in Scenes
    /\ crashed = FALSE
    /\ ran = {}
    /\ goals = 0
    /\ ballPos \in Ps
    /\ label = <<"S", "c", "o", "r", "e", ":", " ", "0">>
    /\ pitch = 0
    /\ translation = None
    /\ events \in Bs
    /\ moveKeys \in KeySets
    /\ dt \in Dts
    /\ \E inp \in Snapshots(FALSE, KickSeqs) :
         /\ spaceHeld = inp.pressed
         /\ justPressed = inp.jp
         /\ justReleased = inp.jr
         /\ sinceKick = Elapsed(-1, inp.jp, 0)
         /\ start = [goals |-> 0, ballPos |-> ballPos,
                     label |-> <<"S", "c", "o", "r", "e", ":", " ", "0">>,
                     pitch |-> 0, translation |-> None,
                     consistent |-> EdgesConsistent(FALSE, inp),
                     batch |-> Summary(events)]
    /\ delivered = NumSensorStopped(events)

\* From the end of one frame's systems to the next frame's update stage:
\* the physics step moves the ball and writes its collision events after
\* those the reader has not read yet, Time and Input are updated.
StartFrame(KeySets, Dts, KickSeqs, Bs) ==
    /\ ~crashed
    /\ ran = Systems
    /\ \E b \in Bs :
         LET sum == Summary(b)
         IN  /\ delivered + sum.stops <= MaxGoals
             /\ events' = events \o b
             /\ delivered' = delivered + sum.stops
             /\ \E inp \in Snapshots(spaceHeld, KickSeqs), d \in Dts :
                  /\ spaceHeld' = inp.pressed
                  /\ justPressed' = inp.jp
                  /\ justReleased' = inp.jr
                  /\ dt' = d
                  /\ sinceKick' = Elapsed(sinceKick, inp.jp, d)
                  /\ \E p \in Positions :
                       /\ ballPos' = IF GetSingle("Ball") THEN p ELSE ballPos
                       /\ start' = [goals |-> goals, ballPos |-> ballPos',
                                    label |-> label, pitch |-> pitch,
                                    translation |-> translation,
                                    consistent |->
                                        /\ start.consistent
                                        /\ EdgesConsistent(spaceHeld, inp),
                                    batch |-> sum]
    /\ moveKeys' \in KeySets
    /\ ran' = {}
    /\ UNCHANGED <<overflowChecks, scene, crashed, goals, label,
                   pitch, translation>>

\* --------------------------------------------------------- specifications
AllKeySets == SUBSET MoveKeyNames
OneKeySet == {{"W"}}
OneDt == {1}
NoKeys == {<<>>}
NoEvents == {<<>>}

\* The program: every batch of collision events, the kick key pressed or
\* released at most once a frame.
Init == InitWith({SetUp}, {Respawn}, NoEvents, OneKeySet, OneDt, KeySeqs(1))
Next ==
    \/ StartFrame(OneKeySet, OneDt, KeySeqs(1), Batches(MaxBatch))
    \/ MovePlayer
    \/ PlayerKick
    \/ GoalSystem
Spec == Init /\ [][Next]_vars

\* The program, the window delivering every kick-key sequence.
InitKick ==
    InitWith({SetUp}, {Respawn}, NoEvents, OneKeySet, 0..MaxDt,
             KeySeqs(MaxKeyEvents))
NextKick ==
    \/ StartFrame(OneKeySet, 0..MaxDt, KeySeqs(MaxKeyEvents), NoEvents)
    \/ MovePlayer
    \/ PlayerKick
    \/ GoalSystem
SpecKick == InitKick /\ [][NextKick]_vars

\* The program, every movement key set and frame time.
InitMove == InitWith({SetUp}, {Respawn}, NoEvents, AllKeySets, 0..MaxDt, NoKeys)
NextMove ==
    \/ StartFrame(AllKeySets, 0..MaxDt, NoKeys, NoEvents)
    \/ MovePlayer
    \/ PlayerKick
    \/ GoalSystem
SpecMove == InitMove /\ [][NextMove]_vars

\* The systems in a scene that was set up with any number of each entity,
\* with or without the Score resource, the first frame reading any batch.
Scenes ==
    { sc \in [Kinds -> 0..MaxEntities] : sc["Score"] <= 1 }
InitScene ==
    InitWith(Scenes, Positions, Batches(MaxBatch), OneKeySet, OneDt, NoKeys)
NextScene ==
    \/ StartFrame(OneKeySet, OneDt, NoKeys, NoEvents)
    \/ MovePlayer
    \/ PlayerKick
    \/ GoalSystem
SpecScene == InitScene /\ [][NextScene]_vars

\* The program, the three systems all with something to do: two movement
\* key sets, every kick-key sequence, batches of one event.
TwoKeySets == {{"W"}, {"S", "A"}}
InitOrder ==
    InitWith({SetUp}, {Respawn}, NoEvents, TwoKeySets, OneDt,
             KeySeqs(MaxKeyEvents))
NextOrder ==
    \/ StartFrame(TwoKeySets, OneDt, KeySeqs(MaxKeyEvents), Batches(1))
    \/ MovePlayer
    \/ PlayerKick
    \/ GoalSystem
SpecOrder == InitOrder /\ [][NextOrder]_vars

\* The program after 4294967292 goals, three short of u32::MAX, at the
\* start of a frame, built with or without overflow checks (the dev and
\* the release profile).  delivered counts from this state on.
NearU32Max == U32Max - 3
InitOverflow ==
    /\ overflowChecks \in BOOLEAN
    /\ scene = SetUp
    /\ crashed = FALSE
    /\ ran = {}
    /\ goals = NearU32Max
    /\ ballPos = Respawn
    /\ label = FormatScore(NearU32Max)
    /\ pitch = 0
    /\ translation = MoveCommand({"W"}, 1)
    /\ events = <<>>
    /\ moveKeys = {"W"}
    /\ dt = 1
    /\ spaceHeld = FALSE
    /\ justPressed = FALSE
    /\ justReleased = FALSE
    /\ sinceKick = -1
    /\ start = [goals |-> goals, ballPos |-> ballPos, label |-> label,
                pitch |-> 0, translation |-> translation,
                consistent |-> TRUE, batch |-> NoBatch]
    /\ delivered = 0
NextOverflow ==
    \/ StartFrame(OneKeySet, OneDt, KeySeqs(1), Batches(MaxBatch))
    \/ MovePlayer
    \/ PlayerKick
    \/ GoalSystem
SpecOverflow == InitOverflow /\ [][NextOverflow]_vars

\* ------------------------------------------------------------------ claims
\* What the claims say of the label, read back independently of FormatScore.
DigitValue(c) ==
    CASE c = "0" -> 0 [] c = "1" -> 1 [] c = "2" -> 2 [] c = "3" -> 3
      [] c = "4" -> 4 [] c = "5" -> 5 [] c = "6" -> 6 [] c = "7" -> 7
      [] c = "8" -> 8 [] c = "9" -> 9 [] OTHER -> -1

RECURSIVE DecimalValue(_)
DecimalValue(ds) ==
    IF ds = <<>> THEN 0
    ELSE 10 * DecimalValue(SubSeq(ds, 1, Len(ds) - 1)) + DigitValue(ds[Len(ds)])

\* A decimal numeral: digits only, at least one, no leading zero.
IsNumeral(ds) ==
    /\ Len(ds) >= 1
    /\ \A i \in 1..Len(ds) : DigitValue(ds[i]) >= 0
    /\ Len(ds) > 1 => ds[1] # "0"

\* The text "Score: " followed by the numeral of n.
IsScoreLabel(l, n) ==
    /\ Len(l) > 7
    /\ SubSeq(l, 1, 7) = <<"S", "c", "o", "r", "e", ":", " ">>
    /\ IsNumeral(SubSeq(l, 8, Len(l)))
    /\ DecimalValue(SubSeq(l, 8, Len(l))) = n

BrokenScene == \E k \in Kinds : scene[k] # 1

\* C1: goal_system adds exactly 1 to Score for each Stopped event that has
\* the goal sensor in either position: once it has run in a frame, Score is
\* the Score the frame began with plus the number of such events in the
\* frame's batch (several in one frame each count), and over the run Score
\* is the initial Score, 0, plus the number of such events delivered.
C1_ScoreCountsEverySensorStop ==
    /\ "goal" \in ran =>
         /\ goals = start.goals + start.batch.stops
         /\ goals = delivered
    /\ "goal" \notin ran =>
         /\ goals = start.goals
         /\ goals + start.batch.stops = delivered

C1_Witness ==
    /\ "goal" \in ran
    /\ start.goals = 1
    /\ start.batch.stops = 2
    /\ goals = 3

\* C2: once goal_system has processed a batch that holds at least one
\* Stopped event involving the goal sensor, the Ball is at the respawn point
\* (0, 4, 0), wherever it was as the frame began and whatever else the batch
\* holds.
C2_BallAtRespawnAfterGoal ==
    ("goal" \in ran /\ start.batch.stops > 0) => ballPos = <<0, 32, 0>>

C2_Witness ==
    /\ "goal" \in ran
    /\ start.batch.stops = 1
    /\ start.batch.len = 2
    /\ start.ballPos # <<0, 32, 0>>
    /\ ballPos = <<0, 32, 0>>

\* C3: in every reachable state the score label is the text "Score: n" for
\* the current Score n, from "Score: 0" at the start on.
C3_LabelShowsScore == IsScoreLabel(label, goals)

C3_Witness ==
    /\ "goal" \in ran
    /\ start.goals = 1
    /\ start.batch.stops = 2
    /\ goals = 3
    /\ label = <<"S", "c", "o", "r", "e", ":", " ", "3">>

\* C4: a frame whose batch holds no Stopped event involving the goal sensor
\* leaves Score, Ball position and label as the frame began, and no run of
\* goal_system changes the Player's pitch.
C4_NoSensorStopNoEffect ==
    /\ [](("goal" \in ran /\ start.batch.stops = 0) =>
            /\ goals = start.goals
            /\ ballPos = start.ballPos
            /\ label = start.label)
    /\ [][("goal" \notin ran /\ "goal" \in ran') => pitch' = pitch]_vars

C4_Witness ==
    /\ "goal" \in ran
    /\ "kick" \in ran
    /\ start.batch.len = 2
    /\ start.batch.stops = 0
    /\ start.ballPos # Respawn
    /\ ballPos = start.ballPos
    /\ goals = 2
    /\ pitch = -1

\* C5: in a frame that begins with pitch 0 and in which the kick key is just
\* pressed and not just released, the pitch is 0 until player_kick runs and
\* -amplitude once it has run: one step, within the frame.
C5_KickSnapsWithinFrame ==
    (start.pitch = 0 /\ justPressed /\ ~justReleased) =>
        pitch = (IF "kick" \in ran THEN -1 ELSE 0)

C5_Witness ==
    /\ "kick" \in ran
    /\ start.pitch = 0
    /\ justPressed
    /\ ~justReleased
    /\ pitch = -1

\* C6 as stated: once the kick duration has elapsed since the last kick
\* press, the pitch is back at 0.
C6_ReturnsOnTimer ==
    ("kick" \in ran /\ sinceKick >= KickDuration) => pitch = 0

\* C6, amended: the pitch returns to 0 in the frame in which the kick key is
\* just released (and not just pressed), once per release; in a frame with
\* neither edge the pitch keeps its value, however much frame time has
\* elapsed since the kick.
C6_ReturnsOnRelease ==
    /\ ("kick" \in ran /\ start.pitch = -1 /\ justReleased /\ ~justPressed)
          => pitch = 0
    /\ ("kick" \in ran /\ ~justReleased /\ ~justPressed)
          => pitch = start.pitch

C6_Witness ==
    /\ "kick" \in ran
    /\ start.pitch = -1
    /\ justReleased
    /\ ~justPressed
    /\ sinceKick >= 0
    /\ sinceKick < KickDuration
    /\ pitch = 0

\* C7: a kick trigger in a frame that begins with the pitch at -amplitude
\* leaves the pitch unchanged.
C7_NoDoubleSnap ==
    ("kick" \in ran /\ start.pitch = -1 /\ justPressed) => pitch = start.pitch

\* C8: in every reachable state the pitch lies in [-pi/2, 0]: in quarter
\* turns it is -1 or 0, never beyond the kick amplitude and never positive.
C8_PitchInRange == pitch \in {-1, 0}

\* C9: once move_player has run, the requested translation is
\* speed * dt * (left - right, 0, forward - back), each key counting 0 or 1,
\* for the keys and the frame time of the current frame alone.
Held(k) == IF k \in moveKeys THEN 1 ELSE 0

C9_TranslationFromKeys ==
    "move" \in ran =>
        translation = <<4 * dt * (Held("A") - Held("D")), 0,
                        4 * dt * (Held("W") - Held("S"))>>

C9_Witness ==
    /\ "move" \in ran
    /\ moveKeys = {"W", "A"}
    /\ dt = 4
    /\ translation = <<16, 0, 16>>

\* C10: in a scene where a singleton goal_system requires is not present
\* exactly once, goal_system never completes a run (the frame is not
\* skipped and continued), Score, Ball position, label and the unread batch
\* stay as the frame began (no event is examined, empty batch or not), and
\* the step goal_system takes there ends the frame loop.
C10_MissingSingletonIsFatal ==
    /\ [](BrokenScene =>
            /\ "goal" \notin ran
            /\ goals = start.goals
            /\ ballPos = start.ballPos
            /\ label = start.label
            /\ Len(events) = start.batch.len)
    /\ [][(BrokenScene /\ ran' = ran /\ vars' # vars) => crashed']_vars

C10_Witness ==
    /\ crashed
    /\ ran = {"move", "kick"}
    /\ scene = [SetUp EXCEPT !["Ball"] = 0]
    /\ start.batch.stops = 1
    /\ Len(events) = 2
    /\ goals = 0
    /\ ballPos # Respawn

\* C11 as stated: Score counts only the Stopped events between the goal
\* sensor and the Ball, and a batch without such an event leaves Score, Ball
\* position and label as the frame began.
C11_OnlyBallScores ==
    "goal" \in ran =>
        /\ goals = start.goals + start.batch.ballStops
        /\ start.batch.ballStops = 0 =>
              (ballPos = start.ballPos /\ label = start.label)

\* C11, amended: the other entity of a sensor Stopped event is not looked
\* at.  A batch whose sensor Stopped events all pair the sensor with an
\* entity other than the Ball still resets the Ball, adds one to Score per
\* such event and rewrites the label; only events that do not involve the
\* sensor, and Started events, change nothing.
C11_AnySensorStopScores ==
    ("goal" \in ran /\ start.batch.ballStops = 0) =>
        /\ goals = start.goals + start.batch.stops
        /\ start.batch.stops > 0 =>
              (ballPos = <<0, 32, 0>> /\ label # start.label)
        /\ start.batch.stops = 0 =>
              (ballPos = start.ballPos /\ label = start.label)

C11_Witness ==
    /\ "goal" \in ran
    /\ start.batch.len = 2
    /\ start.batch.stops = 1
    /\ start.batch.ballStops = 0
    /\ start.ballPos # Respawn
    /\ ballPos = Respawn
    /\ goals = start.goals + 1

\* C12: every collision event is handled by goal_system exactly once and in
\* the frame of its delivery.  Until goal_system runs, the unread events are
\* the frame's batch and nothing else; once it has run none is unread and
\* Score is the number of goal-sensor Stopped events delivered so far; and
\* the physics step begins with no unread event and leaves its batch alone
\* to be read.
C12_EveryEventHandledOnce ==
    /\ []("goal" \notin ran =>
            /\ Len(events) = start.batch.len
            /\ goals + start.batch.stops = delivered)
    /\ []("goal" \in ran => (events = <<>> /\ goals = delivered))
    /\ [][(ran = Systems /\ ran' = {}) =>
             (events = <<>> /\ Len(events') = start'.batch.len)]_vars

C12_Witness ==
    /\ ran = Systems
    /\ start.goals = 2
    /\ start.batch.len = 2
    /\ start.batch.stops = 1
    /\ events = <<>>
    /\ goals = 3
    /\ delivered = 3

\* C13: the three systems write disjoint state and none reads what another
\* writes, so the state within a frame depends only on the state the frame
\* began with, the frame's input and batch, and on which systems have run,
\* not on the order in which they ran: the translation command is the
\* frame's own once move_player has run, the pitch is the start pitch
\* turned by the frame's edges once player_kick has run, and Score, Ball
\* position and label are those of the frame's batch once goal_system has
\* run; each is as the frame began until then.
EdgeTurn == (IF justReleased THEN 1 ELSE 0) - (IF justPressed THEN 1 ELSE 0)

C13_OrderIndependent ==
    /\ translation =
          (IF "move" \in ran
           THEN <<4 * dt * (Held("A") - Held("D")), 0,
                  4 * dt * (Held("W") - Held("S"))>>
           ELSE start.translation)
    /\ pitch =
          (IF "kick" \in ran
           THEN ((start.pitch + EdgeTurn + 5) % 4) - 1
           ELSE start.pitch)
    /\ goals =
          (IF "goal" \in ran THEN start.goals + start.batch.stops
           ELSE start.goals)
    /\ ballPos =
          (IF "goal" \in ran /\ start.batch.stops > 0 THEN <<0, 32, 0>>
           ELSE start.ballPos)
    /\ IF "goal" \in ran /\ start.batch.stops > 0
       THEN IsScoreLabel(label, start.goals + start.batch.stops)
       ELSE label = start.label

C13_Witness ==
    /\ ran = {"goal"}
    /\ start.batch.stops = 1
    /\ goals = start.goals + 1
    /\ justPressed
    /\ ~justReleased
    /\ pitch = start.pitch
    /\ moveKeys = {"S", "A"}
    /\ translation = <<0, 0, 4>>
    /\ start.translation = <<0, 0, 4>>

\* C14: Score never decreases, read as the unsigned number its 32 bits
\* hold, and no goal event ends the frame loop: no number of goal events
\* makes the counter wrap or a system panic.
U32Less(a, b) == IF (a >= 0) = (b >= 0) THEN a < b ELSE a >= 0

C14_ScoreNeverWrapsOrAborts ==
    /\ [](~crashed)
    /\ [][~U32Less(goals', goals)]_vars

\* C15: as long as every frame's edges have been consistent with the held
\* state of the kick key, once player_kick has run the pitch is -pi/2
\* exactly when the key is held and 0 otherwise, and a frame in which the
\* key is both just pressed and just released leaves the pitch as the frame
\* began.
C15_PitchFollowsHeldKey ==
    ("kick" \in ran /\ start.consistent) =>
        /\ pitch = (IF spaceHeld THEN -1 ELSE 0)
        /\ (justPressed /\ justReleased) => pitch = start.pitch

C15_Witness ==
    /\ "kick" \in ran
    /\ start.consistent
    /\ justPressed
    /\ justReleased
    /\ spaceHeld
    /\ start.pitch = -1
    /\ pitch = -1
    /\ sinceKick = 0

====
